---------------------------- MODULE Spec2Model ----------------------------
(***************************************************************************)
(* Model of the voucher server: the /webhook handler of the Express app    *)
(* (src/unnamed/part_004, second server.js, lines 340-549) together with   *)
(* the Google-Sheets store module (src/sheets.js) and the SMS sender       *)
(* (src/arkesel.js).                                                        *)
(*                                                                         *)
(* Every `await` of the handler is one atomic action: the remote call of   *)
(* delivery d is served (or fails) and the handler runs on to its next     *)
(* await or to its response.  Between two awaits JavaScript runs without   *)
(* interruption, so other deliveries interleave exactly at these points.   *)
(* Strings the code inspects character by character (the voucher status,   *)
(* the charge status, the phone) are sequences of one-character strings.   *)
(***************************************************************************)
EXTENDS Integers, Sequences, FiniteSets, Bags, TLC

VARIABLES
    vouchers,        \* 'Main voucher sheet'!A2:G, one record per row
    payments,        \* 'Payments' tab below its header row, as a bag of rows
    affiliates,      \* 'Affiliates'!A2:E
    affiliateSales,  \* 'AffiliateSales' tab (append only), as a bag of rows
    outbox,          \* SMS accepted by the provider, as a bag of messages
    pc,              \* pc[d]: the await delivery d is suspended at
    req,             \* req[d]: the HTTP request of delivery d
    loc,             \* loc[d]: the handler's local variables
    resp,            \* resp[d]: the HTTP response sent, or NoResp
    io,              \* io[d]: the remote calls delivery d has completed
    prior,           \* prior[d]: deliveries already answered when d arrived
    faults,          \* remote calls that have failed so far
    seed,            \* the voucher tab as it was pre-seeded
    calls,           \* the calls of the helper functions made so far
    pay              \* the /create-payment request: position, input, response

vars == <<vouchers, payments, affiliates, affiliateSales, outbox,
          pc, req, loc, resp, io, prior, faults, seed, calls, pay>>

----------------------------------------------------------------------------
(* Bounds *)

MaxDeliveries == 2
MaxRows == 1
MaxFaults == 1

\* The serial specification processes one delivery more than the concurrent
\* one, over stores one row longer, so that a store of n eligible rows can be
\* exhausted by n + 1 allocations.
SerialDeliveries == MaxDeliveries + 1
SerialRows == MaxRows + 1

Deliveries == 1..SerialDeliveries

----------------------------------------------------------------------------
(* Program constants *)

VOUCHER_PRICE_GHS == 25
COMMISSION_GHS == 3

----------------------------------------------------------------------------
(* Strings as character sequences *)

Lower(c) ==
    CASE c = "U" -> "u" [] c = "S" -> "s" [] c = "E" -> "e" [] c = "D" -> "d"
      [] c = "Y" -> "y" [] c = "C" -> "c" [] c = "N" -> "n" [] c = "O" -> "o"
      [] OTHER -> c

toLowerCase(s) == [k \in 1..Len(s) |-> Lower(s[k])]

IsSpace(c) == c \in {" ", "\t"}

RECURSIVE trimStart(_)
trimStart(s) ==
    IF s # <<>> /\ IsSpace(Head(s)) THEN trimStart(Tail(s)) ELSE s

RECURSIVE trimEnd(_)
trimEnd(s) ==
    IF s # <<>> /\ IsSpace(s[Len(s)]) THEN trimEnd(SubSeq(s, 1, Len(s) - 1)) ELSE s

trim(s) == trimEnd(trimStart(s))

startsWith(s, c) == s # <<>> /\ Head(s) = c

STR_used == <<"u", "s", "e", "d">>
STR_yes == <<"y", "e", "s">>
STR_USED == <<"U", "S", "E", "D">>
STR_success == <<"s", "u", "c", "c", "e", "s", "s">>


----------------------------------------------------------------------------
(* Requests: raw body, parsed body, signature header *)

None == "null"
Ref(k) == <<"ref", k>>
NoRef == <<>>
PAYSTACK_WEBHOOK_SECRET == "sk_live"

\* data.customer: the gateway's own record of the payer, when the event has one
Customer(phone, email) == [phone |-> phone, email |-> email]
NoCustomer == Customer(<<>>, "")

\* The parsed event envelope {event, data: {status, reference, metadata: {phone,
\* email, ref}, customer}}, flattened.  A missing field is the empty string / None.
Body(event, status, reference, phone, email, ref) ==
    [event |-> event, status |-> status, reference |-> reference,
     phone |-> phone, email |-> email, ref |-> ref, customer |-> NoCustomer]

EmptyBody == Body("", <<>>, NoRef, <<>>, "", None)

\* A raw body is a text: the JSON value it denotes and its layout
\* (layout 0 is the one JSON.stringify produces).
Raw(body, layout) == [json |-> body, layout |-> layout]
JSONparse(raw) == raw.json
JSONstringify(body) == Raw(body, 0)

\* HMAC-SHA512 in hex, as an injective function of key and message.
Hmac(key, raw) == [key |-> key, msg |-> raw]
Signed(hex) == [present |-> TRUE, hex |-> hex]
NoSignature == [present |-> FALSE, hex |-> Hmac("", JSONstringify(EmptyBody))]

Request(hasRaw, rawBody, signature) ==
    [hasRaw |-> hasRaw, rawBody |-> rawBody, signature |-> signature]

Phone055 == <<"0", "5", "5">>
STR_failed == <<"f", "a", "i", "l", "e", "d">>

\* Deliveries that pass the signature check and the event filter: a plain one,
\* one with a referral code whose raw text is not in JSON.stringify's layout,
\* and one for another reference whose status is spelt 'Success'.
PlainBody == Body("charge.success", STR_success, Ref(1), Phone055, "e@x", None)
ReferredBody == Body("charge.success", STR_success, Ref(1), Phone055, "e@x", "c1")
Phone233 == <<"+", "2", "3", "3">>
OtherRefBody ==
    Body("charge.success", <<"S", "u", "c", "c", "e", "s", "s">>, Ref(2), Phone233, "o@x", "c1")
FailedEventBody == Body("charge.failed", STR_failed, Ref(1), Phone055, "e@x", None)
FailedStatusBody == Body("charge.success", STR_failed, Ref(1), Phone055, "e@x", None)

SignedBy(key, raw) == Signed(Hmac(key, raw))

PlainRequest ==
    Request(TRUE, JSONstringify(PlainBody),
            SignedBy(PAYSTACK_WEBHOOK_SECRET, JSONstringify(PlainBody)))
ReferredRequest ==
    Request(TRUE, Raw(ReferredBody, 1), SignedBy(PAYSTACK_WEBHOOK_SECRET, Raw(ReferredBody, 1)))
OtherRefRequest ==
    Request(TRUE, JSONstringify(OtherRefBody),
            SignedBy(PAYSTACK_WEBHOOK_SECRET, JSONstringify(OtherRefBody)))
FailedEventRequest ==
    Request(TRUE, JSONstringify(FailedEventBody),
            SignedBy(PAYSTACK_WEBHOOK_SECRET, JSONstringify(FailedEventBody)))
UnsignedRequest == Request(TRUE, JSONstringify(PlainBody), NoSignature)

\* A payment of its own for delivery d: a reference no other delivery carries.
FreshBody(d) == Body("charge.success", STR_success, <<"fresh", d>>, Phone055, "e@x", None)
FreshRequest(d) ==
    Request(TRUE, JSONstringify(FreshBody(d)),
            SignedBy(PAYSTACK_WEBHOOK_SECRET, JSONstringify(FreshBody(d))))

\* A payment whose metadata.ref is the empty string.
EmptyRefBody == Body("charge.success", STR_success, Ref(2), Phone055, "e@x", "")
EmptyRefRequest ==
    Request(TRUE, JSONstringify(EmptyRefBody),
            SignedBy(PAYSTACK_WEBHOOK_SECRET, JSONstringify(EmptyRefBody)))

GoodRequests == {ReferredRequest, OtherRefRequest}

FilteredRequests ==
    {FailedEventRequest,
     Request(TRUE, JSONstringify(FailedStatusBody),
             SignedBy(PAYSTACK_WEBHOOK_SECRET, JSONstringify(FailedStatusBody))),
     Request(FALSE, JSONstringify(EmptyBody),
             SignedBy(PAYSTACK_WEBHOOK_SECRET, JSONstringify(EmptyBody)))}

\* no header; a body changed after signing; a signature under another key;
\* the signature of the re-serialized text; no body and no header
ForgedRequests ==
    {UnsignedRequest,
     Request(TRUE, JSONstringify(OtherRefBody),
             SignedBy(PAYSTACK_WEBHOOK_SECRET, JSONstringify(PlainBody))),
     Request(TRUE, JSONstringify(PlainBody), SignedBy("sk_other", JSONstringify(PlainBody))),
     Request(TRUE, Raw(ReferredBody, 1),
             SignedBy(PAYSTACK_WEBHOOK_SECRET, JSONstringify(ReferredBody))),
     Request(FALSE, JSONstringify(EmptyBody), NoSignature)}

\* Every request shape, and the smaller set the concurrent specification
\* draws from.
Requests == GoodRequests \cup FilteredRequests \cup ForgedRequests
ConcurrentRequests == {PlainRequest, OtherRefRequest, FailedEventRequest, UnsignedRequest}

NoRequest == Request(FALSE, JSONstringify(EmptyBody), NoSignature)

\* bodyParser.json: req.rawBody is captured only when a body was read;
\* req.body is its parse, or {} when nothing was parsed.
rawBodyCaptured(r) == r.hasRaw
reqBody(r) == IF r.hasRaw THEN JSONparse(r.rawBody) ELSE EmptyBody

\* The /create-payment request: its JSON body (the four fields the handler
\* reads and an amount field it does not), and the response sent.  A
\* missing field of a body is None (NoPhone for the phone); a response field
\* that is not sent is the empty string, 0 for the amount.
PayBody(name, phone, email, ref, amount) ==
    [name |-> name, phone |-> phone, email |-> email, ref |-> ref, amount |-> amount]
PayResponse(code, error, authorization_url, reference, amount) ==
    [code |-> code, error |-> error, authorization_url |-> authorization_url,
     reference |-> reference, amount |-> amount]
NoPayResponse == PayResponse(0, "", "", "", 0)

\* The /create-payment request before it has arrived.
NoPayment ==
    [pc |-> "idle", body |-> PayBody(None, <<None>>, None, None, None), sent |-> <<>>,
     got |-> "", resp |-> NoPayResponse]

\* (mutant) a request without the signature header is let through
verifyPaystackSignature_acceptsMissing(rawBody, signature) ==
    IF PAYSTACK_WEBHOOK_SECRET = "" THEN FALSE
    ELSE ~signature.present \/ Hmac(PAYSTACK_WEBHOOK_SECRET, rawBody) = signature.hex

\* (mutant) the hash is computed also when no secret is configured
verifyWith_noSecretCheck(secret, rawBody, signature) ==
    signature.present /\ Hmac(secret, rawBody) = signature.hex

\* The body of verifyPaystackSignature, for the secret the server was
\* configured with.
verifyWith(secret, rawBody, signature) ==
    IF secret = "" THEN FALSE
    ELSE signature.present /\ Hmac(secret, rawBody) = signature.hex

verifyPaystackSignature(rawBody, signature) ==
    verifyWith(PAYSTACK_WEBHOOK_SECRET, rawBody, signature)

\* const raw = req.rawBody || JSON.stringify(req.body)
rawForVerify(r) == IF rawBodyCaptured(r) THEN r.rawBody ELSE JSONstringify(reqBody(r))

SignatureAccepted(r) == verifyPaystackSignature(rawForVerify(r), r.signature)

----------------------------------------------------------------------------
(* The store: rows of the four tabs *)

Now == "T"

VoucherRow(serial, pin, status, phone, email, at, aff) ==
    [serial |-> serial, pin |-> pin, status |-> status, phone |-> phone,
     email |-> email, at |-> at, aff |-> aff]

SeedRow(k, status) ==
    VoucherRow(<<"S", ToString(k)>>, <<"P", ToString(k)>>, status, <<>>, "", "", "")

SeedStores(statuses, maxRows) ==
    UNION {{[k \in 1..n |-> SeedRow(k, f[k])] : f \in [1..n -> statuses]} : n \in 0..maxRows}

\* (mutant) the status compared without trim()
Eligible_noTrim(row) ==
    LET used == toLowerCase(row.status)
    IN  used # STR_yes /\ used # STR_used

\* used = (row[2] || '').toString().trim().toLowerCase(); used !== 'yes' && used !== 'used'
Eligible(row) ==
    LET used == toLowerCase(trim(row.status))
    IN  used # STR_yes /\ used # STR_used

\* for (let i = 0; i < rows.length; i++) ... : the index (from 1) of the
\* first row the loop stops at, 0 when the loop runs off the end.
RECURSIVE scanFrom(_, _)
scanFrom(rows, i) ==
    IF i > Len(rows) THEN 0
    ELSE IF Eligible(rows[i]) THEN i
    ELSE scanFrom(rows, i + 1)

firstEligible(rows) == scanFrom(rows, 1)

\* (mutant) the status cell written back as it was read
markedRow_statusKept(row, phone, email, affiliateCode) ==
    VoucherRow(trim(row.serial), trim(row.pin), row.status, phone, email, Now,
               IF affiliateCode = None THEN "" ELSE affiliateCode)

\* (mutant) the write is aimed one row above the row read
rowNum_offByOne(i) == i + 1

\* const rowNum = i + 2, for the index i (from 0) of a row of the range read
rowNum(i) == i + 2

\* The position in the voucher tab (its first row is sheet row 2, the first
\* row of 'Main voucher sheet!A2:G') of sheet row r.
storeIndex(r) == r - 1

\* values: [[serial, pin, 'USED', phone || '', email || '', now, affiliateCode || '']]
\* with serial = (row[0] || '').toString().trim(), pin likewise
markedRow(row, phone, email, affiliateCode) ==
    VoucherRow(trim(row.serial), trim(row.pin), STR_USED, phone, email, Now,
               IF affiliateCode = None THEN "" ELSE affiliateCode)

\* (mutant) the reference cell left empty
PaymentRow_refDropped(reference, phone, email, amount, voucherSerial, affiliateCode) ==
    [at |-> Now, reference |-> NoRef, phone |-> phone, email |-> email,
     amount |-> amount, voucherSerial |-> voucherSerial, affiliateCode |-> affiliateCode]

PaymentRow(reference, phone, email, amount, voucherSerial, affiliateCode) ==
    [at |-> Now, reference |-> reference, phone |-> phone, email |-> email,
     amount |-> amount, voucherSerial |-> voucherSerial, affiliateCode |-> affiliateCode]

\* (mutant) the scan compares column F (the voucher serial) instead of column B
paymentsContainsReference_wrongColumn(readOk, rows, reference) ==
    IF readOk THEN \E r \in BagToSet(rows) : r.voucherSerial = reference
    ELSE FALSE

\* (mutant) a failed read counts as 'seen'
paymentsContainsReference_failClosed(readOk, rows, reference) ==
    IF readOk THEN \E r \in BagToSet(rows) : r.reference = reference
    ELSE TRUE

\* paymentsContainsReference: the scan of Payments!B2:B, false when the read threw
paymentsContainsReference(readOk, rows, reference) ==
    IF readOk THEN \E r \in BagToSet(rows) : r.reference = reference
    ELSE FALSE

\* values.append: one more copy of the row in the tab
appendRow(tab, row) == tab (+) SetToBag({row})

SaleRow(refCode, buyerPhone, voucherSerial) ==
    [at |-> Now, code |-> refCode, phone |-> buyerPhone, amount |-> 25,
     commission |-> 3, voucherSerial |-> voucherSerial, paid |-> "no"]

AffiliateRow(code, sales, commission) ==
    [code |-> code, name |-> "", phone |-> "", totalSales |-> sales,
     totalCommission |-> commission]

\* (mutant) the scan of the Affiliates tab never finds the code
findCode_notFound(rows, refCode, i) == 0

RECURSIVE findCode(_, _, _)
findCode(rows, refCode, i) ==
    IF i > Len(rows) THEN 0
    ELSE IF rows[i].code = refCode THEN i
    ELSE findCode(rows, refCode, i + 1)

\* A cell of the Affiliates tab that holds nothing.
BlankCell == -1

\* parseFloat(cell || 0) || 0, for a cell that is blank or holds a number
parseTotal(cell) == IF cell = BlankCell THEN 0 ELSE cell

\* (mutant) the update is aimed at the last row of the tab read
totalsRead_lastRow(rows, refCode) ==
    LET found == IF findCode(rows, refCode, 1) = 0 THEN 0 ELSE Len(rows) IN
    [found |-> found,
     newSales |-> IF found = 0 THEN 1 ELSE parseTotal(rows[found].totalSales) + 1,
     newComm |-> IF found = 0 THEN 3 ELSE parseTotal(rows[found].totalCommission) + 3]

\* updateOrCreateAffiliateTotals, from the rows read: the first row whose code
\* is refCode (0: none) and the totals to write
totalsRead(rows, refCode) ==
    LET found == findCode(rows, refCode, 1) IN
    [found |-> found,
     newSales |-> IF found = 0 THEN 1 ELSE parseTotal(rows[found].totalSales) + 1,
     newComm |-> IF found = 0 THEN 3 ELSE parseTotal(rows[found].totalCommission) + 3]

\* updateOrCreateAffiliateTotals, the write: values.append of a new row, or
\* values.update of columns D:E of the row found
totalsWrite(tab, refCode, found, newSales, newComm) ==
    IF found = 0
      THEN Append(tab, AffiliateRow(refCode, 1, 3))
      ELSE [tab EXCEPT ![found] = [@ EXCEPT !.totalSales = newSales,
                                            !.totalCommission = newComm]]

----------------------------------------------------------------------------
(* The /webhook handler *)

NoResp == [code |-> 0, text |-> ""]
Response(code, text) == [code |-> code, text |-> text]

\* The responses the handler sends.
\* (mutant) the rejection sent as 401
invalidSignature_401 == Response(401, "Invalid signature")

invalidSignature == Response(400, "Invalid signature")
ignored == Response(200, "ignored")
alreadyProcessed == Response(200, "already processed")
\* (mutant) exhaustion reported as a server error
noVouchers_500 == Response(500, "no vouchers")

noVouchers == Response(200, "no vouchers")
okResponse == Response(200, "ok")
\* (mutant) a failed voucher call is acknowledged
serverError_acknowledged == Response(200, "server error")

serverError == Response(500, "server error")

NoVoucher == [serial |-> <<>>, pin |-> <<>>]

\* (mutant) the empty referral code is kept as a code
metadataRef_keepsEmpty(ref) == ref

\* const refCode = metadata.ref || null
metadataRef(ref) == IF ref \in {None, ""} THEN None ELSE ref

InitLocals ==
    [phone |-> <<>>, email |-> "", refCode |-> None, paystackRef |-> NoRef,
     rows |-> <<>>, i |-> 0, voucher |-> NoVoucher,
     found |-> 0, newSales |-> 0, newComm |-> 0]

Call(name, ok) == [call |-> name, ok |-> ok]

InFlight == {d \in Deliveries : pc[d] \notin {"idle", "done"}}
Answered == {d \in Deliveries : pc[d] = "done"}

\* if (phone && phone.startsWith('0')) phone = '233' + phone.slice(1);
\* if (phone && phone.startsWith('+')) phone = phone.slice(1);
webhookPhone(phone) ==
    LET p1 == IF startsWith(phone, "0") THEN <<"2", "3", "3">> \o Tail(phone) ELSE phone
    IN  IF startsWith(p1, "+") THEN Tail(p1) ELSE p1

\* Locals of a call that has returned (the rows read by getAndMarkVoucher, the
\* totals computed by updateOrCreateAffiliateTotals) are reset when it returns.

\* res.status(code).send(text) and return
Respond(d, response) ==
    /\ resp' = [resp EXCEPT ![d] = response]
    /\ pc' = [pc EXCEPT ![d] = "done"]

Await(d, label) ==
    /\ pc' = [pc EXCEPT ![d] = label]
    /\ UNCHANGED resp

\* The remote call `name` of delivery d returns (ok) or throws (~ok).
Did(d, name, ok) ==
    /\ ok \/ faults < MaxFaults
    /\ faults' = IF ok THEN faults ELSE faults + 1
    /\ io' = [io EXCEPT ![d] = Append(@, Call(name, ok))]

\* (mutant) the check of data.status left out
ReceiveFrom_noStatusFilter(d, requests, limit) ==
    /\ d <= limit
    /\ pc[d] = "idle"
    /\ IF d = 1 THEN TRUE ELSE pc[d - 1] # "idle"
    /\ \E r \in requests :
         LET event == reqBody(r) IN
         /\ req' = [req EXCEPT ![d] = r]
         /\ prior' = [prior EXCEPT ![d] = Answered]
         /\ IF ~SignatureAccepted(r)
              THEN Respond(d, invalidSignature) /\ UNCHANGED loc
            ELSE IF event.event # "charge.success"
              THEN Respond(d, ignored) /\ UNCHANGED loc
            ELSE /\ loc' = [loc EXCEPT ![d] =
                              [@ EXCEPT !.phone = event.phone, !.email = event.email,
                                        !.refCode = metadataRef(event.ref),
                                        !.paystackRef = event.reference]]
                 /\ Await(d, "guard")
    /\ UNCHANGED <<vouchers, payments, affiliates, affiliateSales, outbox, io, faults, seed, calls, pay>>

\* A request arrives; the handler runs up to its first await.
ReceiveFrom(d, requests, limit) ==
    /\ d <= limit
    /\ pc[d] = "idle"
    /\ IF d = 1 THEN TRUE ELSE pc[d - 1] # "idle"
    /\ \E r \in requests :
         LET event == reqBody(r) IN
         /\ req' = [req EXCEPT ![d] = r]
         /\ prior' = [prior EXCEPT ![d] = Answered]
         /\ IF ~SignatureAccepted(r)
              THEN Respond(d, invalidSignature) /\ UNCHANGED loc
            ELSE IF event.event # "charge.success"
              THEN Respond(d, ignored) /\ UNCHANGED loc
            ELSE IF toLowerCase(event.status) # STR_success
              THEN Respond(d, ignored) /\ UNCHANGED loc
            ELSE /\ loc' = [loc EXCEPT ![d] =
                              [@ EXCEPT !.phone = event.phone, !.email = event.email,
                                        !.refCode = metadataRef(event.ref),
                                        !.paystackRef = event.reference]]
                 /\ Await(d, "guard")
    /\ UNCHANGED <<vouchers, payments, affiliates, affiliateSales, outbox, io, faults, seed, calls, pay>>

Receive(d) == ReceiveFrom(d, ConcurrentRequests, MaxDeliveries)

\* (mutant) the lookup is served only while no other delivery is past its own
GuardRead_waitsForOthers(d) ==
    /\ pc[d] = "guard"
    /\ \A e \in Deliveries \ {d} : pc[e] \in {"idle", "guard", "done"}
    /\ \E ok \in BOOLEAN :
         LET already == paymentsContainsReference(ok, payments, loc[d].paystackRef) IN
         /\ Did(d, "payRead", ok)
         /\ IF already
              THEN Respond(d, alreadyProcessed) /\ UNCHANGED loc
              ELSE /\ loc' = [loc EXCEPT ![d].phone = webhookPhone(@)]
                   /\ Await(d, "vread")
    /\ UNCHANGED <<vouchers, payments, affiliates, affiliateSales, outbox, req, prior, seed, calls, pay>>

\* await sheets.paymentsContainsReference(paystackRef)
GuardRead(d) ==
    /\ pc[d] = "guard"
    /\ \E ok \in BOOLEAN :
         LET already == paymentsContainsReference(ok, payments, loc[d].paystackRef) IN
         /\ Did(d, "payRead", ok)
         /\ IF already
              THEN Respond(d, alreadyProcessed) /\ UNCHANGED loc
              ELSE /\ loc' = [loc EXCEPT ![d].phone = webhookPhone(@)]
                   /\ Await(d, "vread")
    /\ UNCHANGED <<vouchers, payments, affiliates, affiliateSales, outbox, req, prior, seed, calls, pay>>

\* getAndMarkVoucher, first await: values.get of the voucher tab and the scan
VoucherRead(d) ==
    /\ pc[d] = "vread"
    /\ \E ok \in BOOLEAN :
         /\ Did(d, "vRead", ok)
         /\ IF ~ok
              THEN Respond(d, serverError) /\ UNCHANGED loc
              ELSE LET rows == vouchers
                       i == firstEligible(rows)
                   IN  IF i = 0
                         THEN /\ loc' = [loc EXCEPT ![d] = [@ EXCEPT !.rows = rows, !.i = 0]]
                              /\ Await(d, "novoucher")
                         ELSE /\ loc' = [loc EXCEPT ![d] =
                                           [@ EXCEPT !.rows = rows, !.i = i,
                                                     !.voucher = [serial |-> trim(rows[i].serial),
                                                                  pin |-> trim(rows[i].pin)]]]
                              /\ Await(d, "vwrite")
    /\ UNCHANGED <<vouchers, payments, affiliates, affiliateSales, outbox, req, prior, seed, calls, pay>>

\* getAndMarkVoucher, second await: values.update of row i; then sendSMS is called
VoucherWrite(d) ==
    /\ pc[d] = "vwrite"
    /\ \E ok \in BOOLEAN :
         /\ Did(d, "vWrite", ok)
         /\ IF ok
              THEN /\ vouchers' = [vouchers EXCEPT ![storeIndex(rowNum(loc[d].i - 1))] =
                                     markedRow(loc[d].rows[loc[d].i], loc[d].phone,
                                               loc[d].email, None)]
                   /\ Await(d, "sms")
              ELSE /\ UNCHANGED vouchers
                   /\ Respond(d, serverError)
    /\ loc' = [loc EXCEPT ![d].rows = <<>>]
    /\ UNCHANGED <<payments, affiliates, affiliateSales, outbox, req, prior, seed, calls, pay>>

\* no voucher: await sheets.appendPaymentLog(paystackRef, phone, email, 25, '', refCode || '')
NoVoucherLog(d) ==
    /\ pc[d] = "novoucher"
    /\ \E ok \in BOOLEAN :
         /\ Did(d, "payAppend", ok)
         /\ payments' = IF ok
                          THEN appendRow(payments,
                                      PaymentRow(loc[d].paystackRef, loc[d].phone, loc[d].email,
                                                 VOUCHER_PRICE_GHS, <<>>,
                                                 IF loc[d].refCode = None THEN "" ELSE loc[d].refCode))
                          ELSE payments
    /\ Respond(d, noVouchers)
    /\ loc' = [loc EXCEPT ![d].rows = <<>>]
    /\ UNCHANGED <<vouchers, affiliates, affiliateSales, outbox, req, prior, seed, calls, pay>>

\* (mutant) a failed SMS is not caught: the handler's outer catch answers 500
SendSms_failureAborts(d) ==
    /\ pc[d] = "sms"
    /\ \E ok \in BOOLEAN :
         /\ Did(d, "sms", ok)
         /\ IF ok
              THEN /\ outbox' = appendRow(outbox, [to |-> loc[d].phone,
                                                serial |-> loc[d].voucher.serial,
                                                pin |-> loc[d].voucher.pin])
                   /\ Await(d, IF loc[d].refCode # None THEN "affsale" ELSE "paylog")
              ELSE /\ UNCHANGED outbox
                   /\ Respond(d, serverError)
    /\ UNCHANGED <<vouchers, payments, affiliates, affiliateSales, req, loc, prior, seed, calls, pay>>

\* try { await arkesel.sendSMS(phone, message) } catch { log }
SendSms(d) ==
    /\ pc[d] = "sms"
    /\ \E ok \in BOOLEAN :
         /\ Did(d, "sms", ok)
         /\ outbox' = IF ok
                        THEN appendRow(outbox, [to |-> loc[d].phone,
                                             serial |-> loc[d].voucher.serial,
                                             pin |-> loc[d].voucher.pin])
                        ELSE outbox
    /\ Await(d, IF loc[d].refCode # None THEN "affsale" ELSE "paylog")
    /\ UNCHANGED <<vouchers, payments, affiliates, affiliateSales, req, loc, prior, seed, calls, pay>>

\* (mutant) a failed sale append ends the handler: the payment log is skipped
AffiliateSale_failureResponds(d) ==
    /\ pc[d] = "affsale"
    /\ \E ok \in BOOLEAN :
         /\ Did(d, "affSale", ok)
         /\ IF ok
              THEN /\ affiliateSales' = appendRow(affiliateSales,
                                               SaleRow(loc[d].refCode, loc[d].phone,
                                                       loc[d].voucher.serial))
                   /\ Await(d, "affread")
              ELSE /\ UNCHANGED affiliateSales
                   /\ Respond(d, okResponse)
    /\ UNCHANGED <<vouchers, payments, affiliates, outbox, req, loc, prior, seed, calls, pay>>

\* await sheets.appendAffiliateSaleRow(refCode, phone, voucher.serial)
AffiliateSale(d) ==
    /\ pc[d] = "affsale"
    /\ \E ok \in BOOLEAN :
         /\ Did(d, "affSale", ok)
         /\ IF ok
              THEN /\ affiliateSales' = appendRow(affiliateSales,
                                               SaleRow(loc[d].refCode, loc[d].phone,
                                                       loc[d].voucher.serial))
                   /\ Await(d, "affread")
              ELSE /\ UNCHANGED affiliateSales
                   /\ Await(d, "paylog")
    /\ UNCHANGED <<vouchers, payments, affiliates, outbox, req, loc, prior, seed, calls, pay>>

\* updateOrCreateAffiliateTotals, first await: values.get of Affiliates!A2:E
AffiliateRead(d) ==
    /\ pc[d] = "affread"
    /\ \E ok \in BOOLEAN :
         /\ Did(d, "affRead", ok)
         /\ IF ok
              THEN LET t == totalsRead(affiliates, loc[d].refCode) IN
                   /\ loc' = [loc EXCEPT ![d] =
                                [@ EXCEPT !.found = t.found, !.newSales = t.newSales,
                                          !.newComm = t.newComm]]
                   /\ Await(d, "affwrite")
              ELSE /\ UNCHANGED loc
                   /\ Await(d, "paylog")
    /\ UNCHANGED <<vouchers, payments, affiliates, affiliateSales, outbox, req, prior, seed, calls, pay>>

\* (mutant) the response is sent after the affiliate write, without the
\* payment-log append
AffiliateWrite_respondsFirst(d) ==
    /\ pc[d] = "affwrite"
    /\ \E ok \in BOOLEAN :
         /\ Did(d, "affWrite", ok)
         /\ affiliates' =
              IF ~ok THEN affiliates
              ELSE totalsWrite(affiliates, loc[d].refCode, loc[d].found,
                               loc[d].newSales, loc[d].newComm)
    /\ Respond(d, okResponse)
    /\ loc' = [loc EXCEPT ![d] = [@ EXCEPT !.found = 0, !.newSales = 0, !.newComm = 0]]
    /\ UNCHANGED <<vouchers, payments, affiliateSales, outbox, req, prior, seed, calls, pay>>

\* updateOrCreateAffiliateTotals, second await: values.append or values.update
AffiliateWrite(d) ==
    /\ pc[d] = "affwrite"
    /\ \E ok \in BOOLEAN :
         /\ Did(d, "affWrite", ok)
         /\ affiliates' =
              IF ~ok THEN affiliates
              ELSE totalsWrite(affiliates, loc[d].refCode, loc[d].found,
                               loc[d].newSales, loc[d].newComm)
    /\ Await(d, "paylog")
    /\ loc' = [loc EXCEPT ![d] = [@ EXCEPT !.found = 0, !.newSales = 0, !.newComm = 0]]
    /\ UNCHANGED <<vouchers, payments, affiliateSales, outbox, req, prior, seed, calls, pay>>

\* await sheets.appendPaymentLog(paystackRef, phone, email, 25, voucher.serial, refCode || '')
PaymentLog(d) ==
    /\ pc[d] = "paylog"
    /\ \E ok \in BOOLEAN :
         /\ Did(d, "payAppend", ok)
         /\ payments' = IF ok
                          THEN appendRow(payments,
                                      PaymentRow(loc[d].paystackRef, loc[d].phone, loc[d].email,
                                                 VOUCHER_PRICE_GHS, loc[d].voucher.serial,
                                                 IF loc[d].refCode = None THEN "" ELSE loc[d].refCode))
                          ELSE payments
    /\ Respond(d, okResponse)
    /\ UNCHANGED <<vouchers, affiliates, affiliateSales, outbox, req, loc, prior, seed, calls, pay>>

----------------------------------------------------------------------------
(* Specifications *)

\* Status cells of the seeded voucher tab: empty, 'no', 'USED', ' Yes '.
STR_no == <<"n", "o">>
STR_Yes_padded == <<" ", "Y", "e", "s", " ">>
SeedStatus == {<<>>, STR_USED}
SerialSeedStatus == {<<>>, STR_no, STR_USED, STR_Yes_padded}

InitWith(stores) ==
    /\ vouchers \in stores
    /\ seed = vouchers
    /\ payments = EmptyBag
    /\ affiliates = <<>>
    /\ affiliateSales = EmptyBag
    /\ outbox = EmptyBag
    /\ pc = [d \in Deliveries |-> "idle"]
    /\ req = [d \in Deliveries |-> NoRequest]
    /\ loc = [d \in Deliveries |-> InitLocals]
    /\ resp = [d \in Deliveries |-> NoResp]
    /\ io = [d \in Deliveries |-> <<>>]
    /\ prior = [d \in Deliveries |-> {}]
    /\ faults = 0
    /\ calls = <<>>
    /\ pay = NoPayment

\* Concurrent deliveries, remote calls that may fail.
Init == InitWith(SeedStores(SeedStatus, MaxRows))

Next ==
    \E d \in Deliveries :
        \/ Receive(d)
        \/ GuardRead(d)
        \/ VoucherRead(d)
        \/ VoucherWrite(d)
        \/ NoVoucherLog(d)
        \/ SendSms(d)
        \/ AffiliateSale(d)
        \/ AffiliateRead(d)
        \/ AffiliateWrite(d)
        \/ PaymentLog(d)

Spec == Init /\ [][Next]_vars

\* One delivery after another (a request arrives only when no delivery is in
\* flight) and no remote call fails.
NoFault(A) == A /\ faults' = 0

SerialStep(d) ==
    \/ NoFault(GuardRead(d))
    \/ NoFault(VoucherRead(d))
    \/ NoFault(VoucherWrite(d))
    \/ NoFault(NoVoucherLog(d))
    \/ NoFault(SendSms(d))
    \/ NoFault(AffiliateSale(d))
    \/ NoFault(AffiliateRead(d))
    \/ NoFault(AffiliateWrite(d))
    \/ NoFault(PaymentLog(d))

\* Serial deliveries of payments, over every seeded voucher tab.
InitSerial == InitWith(SeedStores(SerialSeedStatus, SerialRows))

ReceiveSerial(d) ==
    /\ InFlight = {}
    /\ ReceiveFrom(d, GoodRequests \cup {FreshRequest(d)}, SerialDeliveries)

NextSerial == \E d \in Deliveries : ReceiveSerial(d) \/ SerialStep(d)

SpecSerial == InitSerial /\ [][NextSerial]_vars

\* Serial deliveries of every request shape.
ReceiveAny(d) ==
    /\ InFlight = {}
    /\ ReceiveFrom(d, Requests \cup {FreshRequest(d)}, SerialDeliveries)

NextRequests == \E d \in Deliveries : ReceiveAny(d) \/ SerialStep(d)

SpecRequests == Init /\ [][NextRequests]_vars

\* The store and the SMS provider recover: the failures so far are forgotten,
\* so that any number of calls can fail in one behaviour.
Recover ==
    /\ faults > 0
    /\ faults' = 0
    /\ UNCHANGED <<vouchers, payments, affiliates, affiliateSales, outbox,
                   pc, req, loc, resp, io, prior, seed, calls, pay>>

\* One delivery after another, remote calls that may fail.
ReceiveFaulty(d) ==
    /\ InFlight = {}
    /\ ReceiveFrom(d, ConcurrentRequests, MaxDeliveries)

NextFaulty ==
    \E d \in Deliveries :
        \/ ReceiveFaulty(d)
        \/ GuardRead(d)
        \/ VoucherRead(d)
        \/ VoucherWrite(d)
        \/ NoVoucherLog(d)
        \/ SendSms(d)
        \/ AffiliateSale(d)
        \/ AffiliateRead(d)
        \/ AffiliateWrite(d)
        \/ PaymentLog(d)

SpecFaulty == Init /\ [][NextFaulty]_vars

\* One delivery, every remote call of which may fail.
ReceiveBestEffort(d) == ReceiveFrom(d, ConcurrentRequests, 1)

NextBestEffort ==
    \/ \E d \in Deliveries :
        \/ ReceiveBestEffort(d)
        \/ GuardRead(d)
        \/ VoucherRead(d)
        \/ VoucherWrite(d)
        \/ NoVoucherLog(d)
        \/ SendSms(d)
        \/ AffiliateSale(d)
        \/ AffiliateRead(d)
        \/ AffiliateWrite(d)
        \/ PaymentLog(d)
    \/ Recover

SpecBestEffort == Init /\ [][NextBestEffort]_vars

\* Concurrent deliveries of referred payments, no remote call fails.
ReceiveConcurrent(d) == ReceiveFrom(d, GoodRequests, MaxDeliveries)

NextConcurrent == \E d \in Deliveries : ReceiveConcurrent(d) \/ SerialStep(d)

SpecConcurrent == InitSerial /\ [][NextConcurrent]_vars

----------------------------------------------------------------------------
(* What a delivery has done, read off its record of completed calls *)

Has(d, name) == \E k \in DOMAIN io[d] : io[d][k].call = name
HasOk(d, name) == \E k \in DOMAIN io[d] : io[d][k] = Call(name, TRUE)
HasFailed(d, name) == \E k \in DOMAIN io[d] : io[d][k] = Call(name, FALSE)
Arrived == {d \in Deliveries : pc[d] # "idle"}
RefOf(d) == reqBody(req[d]).reference
GotVoucher == {d \in Deliveries : HasOk(d, "vWrite")}
\* d2 is a redelivery of the payload of d1, arriving after d1 was answered 200 'ok'
ReplayOf(d1, d2) ==
    /\ d1 \in prior[d2]
    /\ resp[d1] = okResponse
    /\ req[d2] = req[d1]

----------------------------------------------------------------------------
(* C1 *)

----------------------------------------------------------------------------
(* C2 *)

\* C2: no two deliveries are ever returned the same voucher row by
\* getAndMarkVoucher, under any interleaving of deliveries.
C2_OneDeliveryPerVoucherRow ==
    \A d1, d2 \in GotVoucher :
        d1 # d2 => /\ loc[d1].i # loc[d2].i
                   /\ loc[d1].voucher # loc[d2].voucher

----------------------------------------------------------------------------
(* C3 *)

\* C3: the Payments log holds at most one record for any gateway reference.
C3_OnePaymentRecordPerReference ==
    \A r1, r2 \in BagToSet(payments) :
        /\ payments[r1] = 1
        /\ r1.reference = r2.reference => r1 = r2

----------------------------------------------------------------------------
(* C4 *)

\* The status cells that read 'used' or 'yes' once trimmed and lower-cased:
\* of the cells a voucher tab holds here, 'USED' and ' Yes '.
UsedMarker(status) == status \in {STR_USED, STR_Yes_padded}

SeedEligibleRows == {k \in DOMAIN seed : ~UsedMarker(seed[k].status)}
Exhausted == {d \in Deliveries : HasOk(d, "vRead") /\ pc[d] # "vwrite" /\ loc[d].i = 0}
GotVoucherBefore(d) == {e \in GotVoucher : e < d}

\* C4: with the deliveries processed one after another and no failing call, a
\* store seeded with N eligible rows hands out N pairwise different rows, each
\* an eligible row of the seed, to the first N allocations; an allocation
\* returns null exactly when N rows have been handed out before it, and it
\* writes nothing.
C4_SequentialExhaustion ==
    /\ \A d1, d2 \in GotVoucher :
         d1 # d2 => loc[d1].i # loc[d2].i /\ loc[d1].voucher # loc[d2].voucher
    /\ \A d \in GotVoucher :
         /\ loc[d].i \in SeedEligibleRows
         /\ Cardinality(GotVoucherBefore(d)) < Cardinality(SeedEligibleRows)
    /\ \A d \in Exhausted :
         /\ Cardinality(GotVoucherBefore(d)) = Cardinality(SeedEligibleRows)
         /\ ~Has(d, "vWrite")
         /\ \A k \in DOMAIN vouchers : UsedMarker(vouchers[k].status)

C4_Witness ==
    /\ Cardinality(SeedEligibleRows) = SerialRows
    /\ Cardinality(GotVoucher) = SerialRows
    /\ \E d \in Exhausted : resp[d] = noVouchers

----------------------------------------------------------------------------
(* C5 *)

\* C5: getAndMarkVoucher selects the lowest-index row, of the rows it read,
\* whose status is no used marker, and returns that row's serial and pin; it
\* returns null exactly when every row it read carries a used marker.
C5_LowestEligibleRowReturned ==
    \A d \in Deliveries :
        /\ pc[d] = "vwrite" =>
             /\ loc[d].i \in DOMAIN loc[d].rows
             /\ ~UsedMarker(loc[d].rows[loc[d].i].status)
             /\ \A j \in 1..(loc[d].i - 1) : UsedMarker(loc[d].rows[j].status)
             /\ loc[d].voucher = [serial |-> loc[d].rows[loc[d].i].serial,
                                  pin |-> loc[d].rows[loc[d].i].pin]
        /\ pc[d] = "novoucher" =>
             /\ loc[d].i = 0
             /\ \A j \in DOMAIN loc[d].rows : UsedMarker(loc[d].rows[j].status)

\* rows [A(' Yes '), B(unused)]: B is selected
C5_Witness ==
    \E d \in Deliveries :
        /\ pc[d] = "vwrite"
        /\ Len(loc[d].rows) = 2
        /\ loc[d].rows[1].status = STR_Yes_padded
        /\ loc[d].i = 2

----------------------------------------------------------------------------
(* C6 *)

\* C6: a voucher row whose status is a used marker is never written again (it
\* neither reverts to unused nor is the target of a second allocation write),
\* and no row is the target of the allocation writes of two deliveries.
C6_VoucherRowLifecycle ==
    /\ [](\A k \in DOMAIN vouchers :
            Cardinality({d \in GotVoucher : loc[d].i = k}) <= 1)
    /\ [][\A k \in DOMAIN vouchers :
            UsedMarker(vouchers[k].status) => vouchers'[k] = vouchers[k]]_vars

----------------------------------------------------------------------------
(* C7 *)

Logged(reference) == \E row \in BagToSet(payments) : row.reference = reference

\* C7: a delivery that passed the signature check and the event filter and
\* whose reference is in the Payments log when its (successful) read is served
\* is answered 200 'already processed' in that same step, which changes no tab
\* and sends no SMS; such a delivery has made no other remote call; and the
\* first remote call of every delivery is the read of the Payments log.
C7_DedupShortCircuit ==
    /\ [](\A d \in Deliveries :
            /\ io[d] # <<>> => io[d][1].call = "payRead"
            /\ resp[d].text = "already processed" =>
                 /\ io[d] = <<Call("payRead", TRUE)>>
                 /\ resp[d].code = 200)
    /\ [][\A d \in Deliveries :
            (/\ pc[d] = "guard"
             /\ io'[d] = <<Call("payRead", TRUE)>>
             /\ Logged(RefOf(d)))
            => /\ pc'[d] = "done"
               /\ resp'[d] = Response(200, "already processed")
               /\ UNCHANGED <<vouchers, payments, affiliates, affiliateSales, outbox>>]_vars

C7_Witness ==
    \E d \in Deliveries :
        /\ pc[d] = "done"
        /\ Logged(RefOf(d))
        /\ io[d] = <<Call("payRead", TRUE)>>
        /\ resp[d].text = "already processed"

----------------------------------------------------------------------------
(* C8 *)

\* C8: a delivery whose read of the Payments log failed is never answered
\* 'already processed' and is not answered by that step: it goes on to the
\* voucher read, which is its next remote call, also when its reference is in
\* the log.
C8_GuardFailsOpen ==
    \A d \in Deliveries :
        HasFailed(d, "payRead") =>
            /\ io[d][1] = Call("payRead", FALSE)
            /\ resp[d].text # "already processed"
            /\ IF Len(io[d]) = 1
                 THEN pc[d] = "vread" /\ resp[d] = NoResp
                 ELSE io[d][2].call = "vRead"

C8_Witness ==
    \E d \in Deliveries :
        /\ HasFailed(d, "payRead")
        /\ Logged(RefOf(d))
        /\ HasOk(d, "vRead")

----------------------------------------------------------------------------
(* C9 *)

\* C9: a delivery whose signature is not the HMAC of its raw body under the
\* webhook secret (the header missing included) is answered 400 on arrival,
\* makes no remote call, and its arrival leaves every tab and the SMS log as
\* they were.
C9_BadSignatureRejected ==
    /\ [](\A d \in Arrived :
            req[d] \in ForgedRequests =>
                /\ pc[d] = "done"
                /\ resp[d] = Response(400, "Invalid signature")
                /\ io[d] = <<>>
                /\ loc[d] = InitLocals)
    /\ [][\A d \in Deliveries :
            (pc[d] = "idle" /\ pc'[d] # "idle" /\ req'[d] \in ForgedRequests)
            => UNCHANGED <<vouchers, payments, affiliates, affiliateSales, outbox>>]_vars

C9_Witness ==
    \E d, e \in Arrived :
        /\ req[d] = UnsignedRequest
        /\ resp[d].code = 400
        /\ e < d /\ resp[e] = okResponse

----------------------------------------------------------------------------
(* C10 *)

\* C10: a delivery has a response exactly when it has ended, and the response
\* never changes; its code is 200, 400 or 500; it is 400 exactly when the
\* signature was rejected; it is 500 only when the delivery's last remote call
\* (the voucher read or the voucher write) threw; 'ignored', 'already
\* processed', 'no vouchers' and 'ok' are sent with 200.
C10_ResponseCodes ==
    /\ [](\A d \in Deliveries :
            /\ pc[d] = "done" <=> resp[d] # NoResp
            /\ pc[d] = "done" =>
                 /\ resp[d].code \in {200, 400, 500}
                 /\ resp[d].code = 400 <=> req[d] \in ForgedRequests
                 /\ resp[d].code = 500 =>
                      /\ io[d] # <<>>
                      /\ io[d][Len(io[d])] \in {Call("vRead", FALSE), Call("vWrite", FALSE)}
                 /\ resp[d].code = 200 <=>
                      resp[d].text \in {"ignored", "already processed", "no vouchers", "ok"})
    /\ [][\A d \in Deliveries : resp[d] # NoResp => resp'[d] = resp[d]]_vars

C10_Witness ==
    \E d, e \in Deliveries :
        /\ resp[d].code = 500 /\ HasFailed(d, "vWrite")
        /\ resp[e].code = 400

----------------------------------------------------------------------------
(* C11 *)

\* The spellings of data.status that read 'success' once lower-cased, of the
\* spellings a request carries here.
SuccessStatus(status) == status \in {STR_success, <<"S", "u", "c", "c", "e", "s", "s">>}

\* A delivery whose signature is valid and whose event is filtered out.
Filtered(r) ==
    /\ r \notin ForgedRequests
    /\ \/ reqBody(r).event # "charge.success"
       \/ ~SuccessStatus(reqBody(r).status)

\* C11: a signature-valid delivery whose event type is not 'charge.success', or
\* whose data.status is not 'success' in any letter case, is answered 200
\* 'ignored' on arrival, makes no remote call (no guard lookup, no allocation,
\* no SMS, no affiliate update, no payment-log append), and its arrival leaves
\* every tab and the SMS log as they were.
C11_FilteredEventIgnored ==
    /\ [](\A d \in Arrived :
            Filtered(req[d]) =>
                /\ pc[d] = "done"
                /\ resp[d] = Response(200, "ignored")
                /\ io[d] = <<>>
                /\ loc[d] = InitLocals)
    /\ [][\A d \in Deliveries :
            (pc[d] = "idle" /\ pc'[d] # "idle" /\ Filtered(req'[d]))
            => UNCHANGED <<vouchers, payments, affiliates, affiliateSales, outbox>>]_vars

\* a charge.success event of status 'failed' arrives after a sale and is dropped
C11_Witness ==
    \E d, e \in Arrived :
        /\ reqBody(req[d]) = FailedStatusBody
        /\ resp[d] = ignored
        /\ e < d /\ resp[e] = okResponse

----------------------------------------------------------------------------
(* C12 *)

AllUsed(rows) == \A k \in DOMAIN rows : UsedMarker(rows[k].status)
CallNames(d) == {io[d][k].call : k \in DOMAIN io[d]}

\* C12: a delivery that passed the guard and whose voucher read found no
\* eligible row (every row it read carries a used marker) makes one more remote
\* call at most, the payment-log append: no voucher write, no SMS, no affiliate
\* call; that step leaves the voucher tab, the affiliate tabs and the SMS log
\* as they were and answers 200 'no vouchers', also when the append fails; the
\* delivery is never answered 500.
C12_ExhaustionAnswered ==
    /\ [](\A d \in Deliveries :
            /\ pc[d] = "novoucher" => d \in Exhausted /\ AllUsed(loc[d].rows)
            /\ d \in Exhausted =>
                 /\ pc[d] \in {"novoucher", "done"}
                 /\ CallNames(d) \subseteq {"payRead", "vRead", "payAppend"}
                 /\ Has(d, "payAppend") <=> pc[d] = "done"
                 /\ pc[d] = "done" => resp[d] = Response(200, "no vouchers")
                 /\ pc[d] # "done" => resp[d] = NoResp)
    /\ [][\A d \in Deliveries :
            (pc[d] = "novoucher" /\ pc'[d] # "novoucher") =>
                /\ resp'[d] = Response(200, "no vouchers")
                /\ UNCHANGED <<vouchers, affiliates, affiliateSales, outbox>>]_vars

\* the one row went to an earlier delivery; this one is answered 'no vouchers'
\* although its payment-log append failed
C12_Witness ==
    \E d \in Exhausted :
        /\ Cardinality(GotVoucher) = 1
        /\ HasFailed(d, "payAppend")
        /\ resp[d] = noVouchers

----------------------------------------------------------------------------
(* C13 *)

SmsFailed == {d \in Deliveries : HasFailed(d, "sms")}
AllocatedRow(k) == {e \in GotVoucher : loc[e].i = k}

\* C13: a delivery whose sendSMS threw had been allocated a voucher row; that
\* row keeps a used marker and holds the details written by an allocation of it
\* (this delivery's phone and email whenever no other delivery was allocated
\* the same row); the delivery goes on to the affiliate step when it carries a
\* referral code and to the payment-log append, and is answered 200 'ok',
\* never 500.
C13_SmsFailureAbsorbed ==
    \A d \in SmsFailed :
        LET k == loc[d].i IN
        /\ d \in GotVoucher
        /\ k \in DOMAIN vouchers
        /\ UsedMarker(vouchers[k].status)
        /\ vouchers[k].serial = loc[d].voucher.serial
        /\ \E e \in AllocatedRow(k) :
             vouchers[k] = VoucherRow(seed[k].serial, seed[k].pin, STR_USED,
                                      loc[e].phone, loc[e].email, Now, "")
        /\ AllocatedRow(k) = {d} =>
             vouchers[k].phone = loc[d].phone /\ vouchers[k].email = loc[d].email
        /\ pc[d] \in {"affsale", "affread", "affwrite", "paylog", "done"}
        /\ loc[d].refCode # None /\ pc[d] # "affsale" => Has(d, "affSale")
        /\ loc[d].refCode = None => CallNames(d) \cap {"affSale", "affRead", "affWrite"} = {}
        /\ pc[d] = "done" => resp[d] = Response(200, "ok") /\ Has(d, "payAppend")
        /\ pc[d] # "done" => resp[d] = NoResp

\* the SMS of a referred sale fails; the sale is still credited and logged
C13_Witness ==
    \E d \in SmsFailed :
        /\ loc[d].refCode = "c1"
        /\ HasOk(d, "affWrite")
        /\ HasOk(d, "payAppend")
        /\ resp[d] = okResponse
        /\ vouchers[loc[d].i].phone = loc[d].phone

----------------------------------------------------------------------------
(* C14 *)

CreditedSales(c) == {d \in Deliveries : resp[d] = okResponse /\ loc[d].refCode = c}
AccountsOf(c) == {k \in DOMAIN affiliates : affiliates[k].code = c}
SaleEntries(c) == {r \in BagToSet(affiliateSales) : r.code = c}

\* C14: with the deliveries processed one after another and no failing call,
\* starting from an empty Affiliates tab, once n deliveries carrying referral
\* code c have been answered 'ok' (n = 2 for two deliveries of distinct
\* references) the Affiliates tab holds exactly one row for c, with
\* totalSales = n and totalCommission = n x 3, and the AffiliateSales tab
\* holds exactly n entries for c, of commission 3 each.
C14_AffiliateAccumulation ==
    InFlight = {} =>
        LET n == Cardinality(CreditedSales("c1")) IN
        /\ Cardinality(AccountsOf("c1")) = IF n = 0 THEN 0 ELSE 1
        /\ \A k \in AccountsOf("c1") :
             /\ affiliates[k].totalSales = n
             /\ affiliates[k].totalCommission = n * COMMISSION_GHS
        /\ Cardinality(SaleEntries("c1")) = n
        /\ \A r \in SaleEntries("c1") :
             /\ affiliateSales[r] = 1
             /\ r.commission = COMMISSION_GHS
             /\ r.amount = VOUCHER_PRICE_GHS

C14_Witness ==
    /\ InFlight = {}
    /\ \E d1, d2 \in CreditedSales("c1") : RefOf(d1) # RefOf(d2)
    /\ affiliates = <<AffiliateRow("c1", 2, 6)>>
    /\ Cardinality(SaleEntries("c1")) = 2

----------------------------------------------------------------------------
(* C15 *)

\* The sale-event row a delivery appends to the AffiliateSales tab.
SaleRowOf(d) == SaleRow(loc[d].refCode, loc[d].phone, loc[d].voucher.serial)

\* C15: a delivery with a referral code that has got past the affiliate step
\* has invoked both the sale-event append and the totals update, also when the
\* sale-event append failed; a sale-event row that was appended stays in the
\* AffiliateSales tab, also when the totals update failed; and the delivery is
\* answered 200 'ok' whichever of the two failed.
C15_AffiliateStepsIndependent ==
    \A d \in Deliveries :
        (loc[d].refCode # None /\ Has(d, "sms") /\ pc[d] \in {"paylog", "done"}) =>
            /\ Has(d, "affSale")
            /\ Has(d, "affRead")
            /\ HasOk(d, "affSale") => BagIn(SaleRowOf(d), affiliateSales)
            /\ pc[d] = "done" => resp[d] = okResponse

----------------------------------------------------------------------------
(* C16 *)

\* The place of each remote call in the order the claim gives.
StepRank(name) ==
    CASE name = "payRead" -> 1 [] name = "vRead" -> 2 [] name = "vWrite" -> 3
      [] name = "sms" -> 4 [] name = "affSale" -> 5 [] name = "affRead" -> 6
      [] name = "affWrite" -> 7 [] name = "payAppend" -> 8

LastCall(d) == io[d][Len(io[d])]

\* C16: within one delivery the remote calls are made in the order idempotency
\* lookup, voucher read, voucher write, SMS, affiliate sale append, affiliate
\* totals read and write, payment-log append, each begun only after the one
\* before it has returned or thrown (the delivery is suspended at exactly one
\* await, the one that follows its last completed call); a delivery whose
\* signature is rejected makes none of them; and the response is sent after
\* the last of them, once.
C16_StepOrder ==
    \A d \in Deliveries :
        /\ \A j, k \in DOMAIN io[d] :
             j < k => StepRank(io[d][j].call) < StepRank(io[d][k].call)
        /\ req[d] \in ForgedRequests => io[d] = <<>>
        /\ Has(d, "vRead") => io[d][1].call = "payRead"
        /\ Has(d, "vWrite") => HasOk(d, "vRead")
        /\ Has(d, "sms") => HasOk(d, "vWrite")
        /\ Has(d, "affSale") => Has(d, "sms")
        /\ Has(d, "affRead") => HasOk(d, "affSale")
        /\ Has(d, "affWrite") => HasOk(d, "affRead")
        /\ Has(d, "payAppend") =>
             /\ HasOk(d, "vRead")
             /\ Has(d, "vWrite") => Has(d, "sms")
             /\ Has(d, "sms") /\ loc[d].refCode # None => Has(d, "affSale")
        /\ resp[d] # NoResp <=> pc[d] = "done"
        /\ CASE pc[d] \in {"idle", "guard"} -> io[d] = <<>>
             [] pc[d] = "vread" -> LastCall(d).call = "payRead"
             [] pc[d] \in {"vwrite", "novoucher"} -> LastCall(d) = Call("vRead", TRUE)
             [] pc[d] = "sms" -> LastCall(d) = Call("vWrite", TRUE)
             [] pc[d] = "affsale" -> LastCall(d).call = "sms"
             [] pc[d] = "affread" -> LastCall(d) = Call("affSale", TRUE)
             [] pc[d] = "affwrite" -> LastCall(d) = Call("affRead", TRUE)
             [] pc[d] = "paylog" ->
                   \/ LastCall(d).call \in {"sms", "affWrite"}
                   \/ LastCall(d) \in {Call("affSale", FALSE), Call("affRead", FALSE)}
             [] pc[d] = "done" ->
                   \/ io[d] = <<>>
                   \/ LastCall(d).call = "payAppend"
                   \/ LastCall(d) \in {Call("payRead", TRUE), Call("vRead", FALSE),
                                       Call("vWrite", FALSE)}

\* a referred sale that made all eight calls, in order, and was then answered
C16_Witness ==
    \E d \in Deliveries :
        /\ [k \in DOMAIN io[d] |-> io[d][k].call] =
             <<"payRead", "vRead", "vWrite", "sms", "affSale", "affRead", "affWrite",
               "payAppend">>
        /\ resp[d] = okResponse

----------------------------------------------------------------------------
(* The Phone Normalizer (src/utils.js) and the phone inputs *)

MaxPhoneLen == 3

\* Phone strings over a digit, '0', '+' and a blank, and the three numbers
\* the normalizer is documented with.
PhoneChars == {"0", "+", "5", " "}
PhoneInputs == UNION {[1..n -> PhoneChars] : n \in 0..MaxPhoneLen}

Local0551234567 == <<"0", "5", "5", "1", "2", "3", "4", "5", "6", "7">>
Intl233551234567 == <<"2", "3", "3", "5", "5", "1", "2", "3", "4", "5", "6", "7">>
PhoneExamples == {Local0551234567, <<"+">> \o Intl233551234567, Intl233551234567}

\* an absent argument (undefined or null)
NoPhone == <<None>>
PhoneArgs == PhoneInputs \cup PhoneExamples \cup {NoPhone}

\* p.replace(/\s+/g, ''): every run of whitespace replaced by nothing
RECURSIVE replaceSpaces(_)
replaceSpaces(s) ==
    IF s = <<>> THEN <<>>
    ELSE IF IsSpace(Head(s)) THEN replaceSpaces(trimStart(s))
    ELSE <<Head(s)>> \o replaceSpaces(Tail(s))

\* (mutant) whitespace removed at the two ends only
normalizePhone_trimOnly(phone) ==
    IF phone = NoPhone \/ phone = <<>> THEN <<>>
    ELSE LET p0 == trim(phone)
             p2 == IF startsWith(p0, "+") THEN Tail(p0) ELSE p0
         IN  IF startsWith(p2, "0") THEN <<"2", "3", "3">> \o Tail(p2) ELSE p2

\* utils.normalizePhone
normalizePhone(phone) ==
    IF phone = NoPhone \/ phone = <<>> THEN <<>>
    ELSE LET p0 == trim(phone)
             p1 == replaceSpaces(p0)
             p2 == IF startsWith(p1, "+") THEN Tail(p1) ELSE p1
         IN  IF startsWith(p2, "0") THEN <<"2", "3", "3">> \o Tail(p2) ELSE p2

PhoneCall(arg) == [arg |-> arg, ret |-> normalizePhone(arg)]

\* normalizePhone is called on an input, and then on its own result.
NormalizeInput ==
    /\ calls = <<>>
    /\ \E x \in PhoneArgs : calls' = <<PhoneCall(x)>>
    /\ UNCHANGED <<vouchers, payments, affiliates, affiliateSales, outbox,
                   pc, req, loc, resp, io, prior, faults, seed, pay>>

NormalizeAgain ==
    /\ Len(calls) = 1
    /\ calls' = Append(calls, PhoneCall(calls[1].ret))
    /\ UNCHANGED <<vouchers, payments, affiliates, affiliateSales, outbox,
                   pc, req, loc, resp, io, prior, faults, seed, pay>>

InitNormalize == InitWith({<<>>})
NextNormalize == NormalizeInput \/ NormalizeAgain
SpecNormalize == InitNormalize /\ [][NextNormalize]_vars

\* One delivery of a referred payment whose metadata phone is any phone
\* string, or whose buyer details are in data.customer only.
PhoneBody(phone) == Body("charge.success", STR_success, Ref(1), phone, "e@x", "c1")
PhoneRequest(phone) ==
    Request(TRUE, JSONstringify(PhoneBody(phone)),
            SignedBy(PAYSTACK_WEBHOOK_SECRET, JSONstringify(PhoneBody(phone))))

CustomerBody ==
    [Body("charge.success", STR_success, Ref(1), <<>>, "", "c1")
        EXCEPT !.customer = Customer(Phone055, "c@x")]
CustomerRequest ==
    Request(TRUE, JSONstringify(CustomerBody),
            SignedBy(PAYSTACK_WEBHOOK_SECRET, JSONstringify(CustomerBody)))

PhoneRequests == {PhoneRequest(x) : x \in PhoneInputs} \cup {CustomerRequest}

ReceivePhone(d) == ReceiveFrom(d, PhoneRequests, 1)

NextPhone == \E d \in Deliveries : ReceivePhone(d) \/ SerialStep(d)

SpecPhone == Init /\ [][NextPhone]_vars

----------------------------------------------------------------------------
(* C17 *)

\* C17: normalizePhone applied to its own result returns that result:
\* normalizePhone(normalizePhone(x)) = normalizePhone(x) for every input x.
C17_NormalizeIdempotent ==
    Len(calls) = 2 =>
        /\ calls[2].arg = calls[1].ret
        /\ calls[2].ret = calls[1].ret

----------------------------------------------------------------------------
(* C18 *)

HasChar(s, c) == \E k \in DOMAIN s : s[k] = c
WithoutSpaces(s) == SelectSeq(s, LAMBDA c : ~IsSpace(c))

\* The claimed algorithm: remove all whitespace; drop one leading '+'; then
\* replace a leading '0' by '233'.  An absent or empty input gives ''.
ClaimedNormalize(x) ==
    IF x = NoPhone THEN <<>>
    ELSE LET a == WithoutSpaces(x)
             b == IF a # <<>> /\ a[1] = "+" THEN SubSeq(a, 2, Len(a)) ELSE a
         IN  IF b # <<>> /\ b[1] = "0"
               THEN <<"2", "3", "3">> \o SubSeq(b, 2, Len(b))
               ELSE b

NormalizeExamples(call) ==
    /\ call.arg = Local0551234567 => call.ret = Intl233551234567
    /\ call.arg = <<"+">> \o Intl233551234567 => call.ret = Intl233551234567
    /\ call.arg = Intl233551234567 => call.ret = Intl233551234567

\* C18, as claimed: normalizePhone returns what the claimed algorithm gives,
\* the three documented numbers included, and its result never contains
\* whitespace and never contains '+'.
C18_NormalizeOutputPlusFree ==
    \A k \in DOMAIN calls :
        /\ calls[k].ret = ClaimedNormalize(calls[k].arg)
        /\ NormalizeExamples(calls[k])
        /\ \A j \in DOMAIN calls[k].ret : ~IsSpace(calls[k].ret[j])
        /\ ~HasChar(calls[k].ret, "+")

\* C18, amended: normalizePhone returns what the claimed algorithm gives, the
\* three documented numbers included; its result never contains whitespace;
\* it contains a '+' exactly when the input, its whitespace removed, has a '+'
\* after its first character.
C18_NormalizeAlgorithm ==
    \A k \in DOMAIN calls :
        /\ calls[k].ret = ClaimedNormalize(calls[k].arg)
        /\ NormalizeExamples(calls[k])
        /\ \A j \in DOMAIN calls[k].ret : ~IsSpace(calls[k].ret[j])
        /\ HasChar(calls[k].ret, "+") <=>
             LET a == WithoutSpaces(calls[k].arg)
             IN  \E j \in 2..Len(a) : a[j] = "+"

\* ' +0' is normalized to '233', which is normalized to itself
C18_Witness ==
    /\ Len(calls) = 2
    /\ calls[1] = [arg |-> <<" ", "+", "0">>, ret |-> <<"2", "3", "3">>]
    /\ calls[2].ret = <<"2", "3", "3">>

----------------------------------------------------------------------------
(* C19 *)

MetadataPhone(d) == reqBody(req[d]).phone
SmsRecipients == {m.to : m \in BagToSet(outbox)}

\* C19: the phone a delivery writes into its voucher row and sends the SMS to
\* is normalizePhone applied to the metadata phone, whatever string that is.
C19_HandlerPhoneIsNormalized ==
    \A d \in GotVoucher :
        /\ loc[d].phone = normalizePhone(MetadataPhone(d))
        /\ vouchers[loc[d].i].phone = normalizePhone(MetadataPhone(d))
        /\ HasOk(d, "sms") => SmsRecipients = {normalizePhone(MetadataPhone(d))}

----------------------------------------------------------------------------
(* C20 *)

\* C20: a delivery whose metadata has no phone (no email) while data.customer
\* has one writes the customer's phone (email) into its voucher row and sends
\* the SMS to the customer's phone, not to an empty recipient.
C20_CustomerFallback ==
    \A d \in GotVoucher :
        LET customer == reqBody(req[d]).customer IN
        /\ (MetadataPhone(d) = <<>> /\ customer.phone # <<>>) =>
             /\ vouchers[loc[d].i].phone = webhookPhone(customer.phone)
             /\ HasOk(d, "sms") => SmsRecipients = {webhookPhone(customer.phone)}
        /\ (reqBody(req[d]).email = "" /\ customer.email # "") =>
             vouchers[loc[d].i].email = customer.email

----------------------------------------------------------------------------
(* C21 *)

\* C21: the voucher row written for a delivery that carries referral code c is
\* the row that was selected (its serial and pin kept), with a used marker as
\* status, the buyer's normalized phone, the buyer's email, a timestamp, and
\* c in the affiliate-code cell.
C21_MarkedRowCarriesAffiliate ==
    \A d \in GotVoucher :
        LET row == vouchers[loc[d].i] IN
        loc[d].refCode # None =>
            /\ row.serial = seed[loc[d].i].serial
            /\ row.pin = seed[loc[d].i].pin
            /\ loc[d].voucher = [serial |-> row.serial, pin |-> row.pin]
            /\ UsedMarker(row.status)
            /\ row.phone = webhookPhone(MetadataPhone(d))
            /\ row.email = reqBody(req[d]).email
            /\ row.at = Now
            /\ row.aff = loc[d].refCode

----------------------------------------------------------------------------
(* verifyPaystackSignature as a function of secret, body and signature *)

Secrets == {"", PAYSTACK_WEBHOOK_SECRET, "sk_other"}
VerifyBodies ==
    {JSONstringify(PlainBody), JSONstringify(OtherRefBody), JSONstringify(EmptyBody),
     Raw(PlainBody, 1)}
VerifySignatures ==
    {NoSignature} \cup {SignedBy(k, r) : k \in Secrets, r \in VerifyBodies}

VerifyCall(secret, rawBody, signature) ==
    [arg |-> [secret |-> secret, rawBody |-> rawBody, signature |-> signature],
     ret |-> verifyWith(secret, rawBody, signature)]

\* The function is called on a body and a signature, and then on another body
\* with the same signature.
VerifyInput ==
    /\ calls = <<>>
    /\ \E k \in Secrets, r \in VerifyBodies, s \in VerifySignatures :
         calls' = <<VerifyCall(k, r, s)>>
    /\ UNCHANGED <<vouchers, payments, affiliates, affiliateSales, outbox,
                   pc, req, loc, resp, io, prior, faults, seed, pay>>

VerifyChangedBody ==
    /\ Len(calls) = 1
    /\ \E r \in VerifyBodies \ {calls[1].arg.rawBody} :
         calls' = Append(calls, VerifyCall(calls[1].arg.secret, r, calls[1].arg.signature))
    /\ UNCHANGED <<vouchers, payments, affiliates, affiliateSales, outbox,
                   pc, req, loc, resp, io, prior, faults, seed, pay>>

InitVerify == InitWith({<<>>})
NextVerify == VerifyInput \/ VerifyChangedBody
SpecVerify == InitVerify /\ [][NextVerify]_vars

----------------------------------------------------------------------------
(* C22 *)

\* C22: with a secret configured, verifyPaystackSignature accepts exactly when
\* the signature is present and equals the HMAC of the raw body under the
\* secret; a call that accepts, repeated with another body and the same
\* signature, rejects; with an empty secret every call returns false (a
\* value, not an exception).
C22_SignatureVerification ==
    /\ \A k \in DOMAIN calls :
         LET a == calls[k].arg IN
         /\ calls[k].ret \in BOOLEAN
         /\ a.secret # "" =>
              (calls[k].ret <=>
                 (a.signature.present /\ a.signature.hex = Hmac(a.secret, a.rawBody)))
         /\ a.secret = "" => calls[k].ret = FALSE
    /\ Len(calls) = 2 /\ calls[1].ret => ~calls[2].ret

\* an accepted body, changed under the same signature, is rejected
C22_Witness ==
    /\ Len(calls) = 2
    /\ calls[1].ret = TRUE
    /\ calls[2].ret = FALSE
    /\ calls[2].arg.signature = calls[1].arg.signature

----------------------------------------------------------------------------
(* C23 *)

\* The empty text: no body bytes were received (bodyParser then leaves
\* req.rawBody unset and req.body = {}).
EmptyRaw == [json |-> EmptyBody, layout |-> -1]

\* The raw request body as it was received.
ReceivedRaw(r) == IF r.hasRaw THEN r.rawBody ELSE EmptyRaw

\* C23: the text hashed for the signature check of a delivery is the raw
\* request body as received, also when no body was received; it is never the
\* re-serialization JSON.stringify(req.body).
C23_HashOverRawBody ==
    \A d \in Arrived :
        /\ rawForVerify(req[d]) = ReceivedRaw(req[d])
        /\ resp[d] # invalidSignature =>
             req[d].signature.hex = Hmac(PAYSTACK_WEBHOOK_SECRET, ReceivedRaw(req[d]))

----------------------------------------------------------------------------
(* POST /create-payment *)

PayNames == {None, "", "Ama"}
PayPhones == {NoPhone} \cup PhoneInputs
PayEmails == {None, "", "e@x"}
PayRefs == {None, "", "c1"}
PayAmounts == {None, "1"}

\* What the call of the gateway's transaction/initialize ends in: a response
\* body with a data object, one without, no response body, an error response
\* (axios throws, err.response.data is set), no response at all (axios throws).
GatewayResults == {"data", "nodata", "nobody", "rejected", "unreachable"}

\* (mutant) the phone is not required
paymentInputMissing_phoneOptional(body) ==
    \/ body.name \in {None, ""}
    \/ body.email \in {None, ""}

\* if (!name || !phone || !email)
paymentInputMissing(body) ==
    \/ body.name \in {None, ""}
    \/ body.phone \in {NoPhone, <<>>}
    \/ body.email \in {None, ""}

\* (mutant) an amount in the request body replaces the price
InitializeRequest_bodyAmount(body) ==
    [email |-> body.email,
     amount |-> IF body.amount = None THEN VOUCHER_PRICE_GHS * 100 ELSE 100,
     currency |-> "GHS",
     metadata |-> [name |-> body.name, phone |-> normalizePhone(body.phone),
                   ref |-> IF body.ref \in {None, ""} THEN None ELSE body.ref]]

\* The body of the request posted to the gateway; the amount is
\* Math.round(VOUCHER_PRICE_GHS * 100).
InitializeRequest(body) ==
    [email |-> body.email, amount |-> VOUCHER_PRICE_GHS * 100, currency |-> "GHS",
     metadata |-> [name |-> body.name, phone |-> normalizePhone(body.phone),
                   ref |-> IF body.ref \in {None, ""} THEN None ELSE body.ref]]

\* (mutant) a gateway response without a data object is passed on as a success
initializeResponse_noDataCheck(result) ==
    CASE result = "data" -> PayResponse(200, "", "https://pay/1", "r1", VOUCHER_PRICE_GHS)
      [] result \in {"nodata", "nobody"} -> PayResponse(200, "", "", "", VOUCHER_PRICE_GHS)
      [] result = "rejected" -> PayResponse(500, "upstream", "", "", 0)
      [] result = "unreachable" -> PayResponse(500, "server error", "", "", 0)

\* The response of /create-payment by what the gateway call ended in; the
\* gateway's data object carries authorization_url 'https://pay/1' and
\* reference 'r1', its error response the body 'upstream'.
initializeResponse(result) ==
    CASE result = "data" -> PayResponse(200, "", "https://pay/1", "r1", VOUCHER_PRICE_GHS)
      [] result \in {"nodata", "nobody"} ->
            PayResponse(500, "Paystack initialize failed", "", "", 0)
      [] result = "rejected" -> PayResponse(500, "upstream", "", "", 0)
      [] result = "unreachable" -> PayResponse(500, "server error", "", "", 0)

\* The request arrives; the handler runs up to `await axios.post(...)`.
CreatePayment ==
    /\ pay.pc = "idle"
    /\ \E name \in PayNames, phone \in PayPhones, email \in PayEmails, ref \in PayRefs,
          amount \in PayAmounts :
         LET body == PayBody(name, phone, email, ref, amount) IN
         IF paymentInputMissing(body)
           THEN /\ pay' = [pay EXCEPT !.pc = "done", !.body = body,
                               !.resp = PayResponse(400, "name, phone and email required",
                                                    "", "", 0)]
                /\ UNCHANGED calls
           ELSE /\ pay' = [pay EXCEPT !.pc = "initialize", !.body = body,
                               !.sent = Append(@, InitializeRequest(body))]
                /\ calls' = Append(calls, PhoneCall(phone))
    /\ UNCHANGED <<vouchers, payments, affiliates, affiliateSales, outbox,
                   pc, req, loc, resp, io, prior, faults, seed>>

\* The gateway call returns or throws; the handler responds.
Initialize ==
    /\ pay.pc = "initialize"
    /\ \E result \in GatewayResults :
         pay' = [pay EXCEPT !.pc = "done", !.got = result,
                            !.resp = initializeResponse(result)]
    /\ UNCHANGED <<vouchers, payments, affiliates, affiliateSales, outbox,
                   pc, req, loc, resp, io, prior, faults, seed, calls>>

InitCreate == InitWith({<<>>})
NextCreate == CreatePayment \/ Initialize
SpecCreate == InitCreate /\ [][NextCreate]_vars

\* No webhook delivery has arrived and no tab has been touched.
WebhookUntouched ==
    /\ vouchers = seed /\ payments = EmptyBag /\ affiliates = <<>>
    /\ affiliateSales = EmptyBag /\ outbox = EmptyBag
    /\ Arrived = {}

----------------------------------------------------------------------------
(* C24 *)

\* C24: a /create-payment request whose name, phone or email is missing or
\* empty (ref present or not) is answered 400 on arrival; no request is sent to
\* the gateway, and nothing else is called or written.
C24_MissingInputRejected ==
    (/\ pay.pc # "idle"
     /\ \/ pay.body.name \in {None, ""}
        \/ pay.body.phone \in {NoPhone, <<>>}
        \/ pay.body.email \in {None, ""})
    => /\ pay.pc = "done"
       /\ pay.resp.code = 400
       /\ pay.sent = <<>>
       /\ pay.got = ""
       /\ calls = <<>>
       /\ WebhookUntouched

\* only the phone is missing, and no ref is given
C24_Witness ==
    /\ pay.body = PayBody("Ama", <<>>, "e@x", None, None)
    /\ pay.resp.code = 400

----------------------------------------------------------------------------
(* C25 *)

PayInputValid ==
    /\ pay.body.name \notin {None, ""}
    /\ pay.body.phone \notin {NoPhone, <<>>}
    /\ pay.body.email \notin {None, ""}

\* C25: a /create-payment request with name, phone and email sends one
\* request to the gateway; when that call returns a body with a data object
\* the response is 200 with the data's authorization_url and reference and the
\* voucher price as amount; when it throws, or returns no data object, the
\* response is 500, with the upstream error body when there is one; in no
\* other case is the response 200.
C25_PaymentCreationResponse ==
    (pay.pc # "idle" /\ PayInputValid) =>
        /\ Len(pay.sent) = 1
        /\ pay.sent[1].amount = 2500
        /\ pay.pc = "initialize" => pay.resp = NoPayResponse
        /\ pay.pc = "done" =>
             /\ pay.got \in GatewayResults
             /\ pay.resp.code \in {200, 500}
             /\ pay.resp.code = 200 <=> pay.got = "data"
             /\ pay.got = "data" =>
                  /\ pay.resp.authorization_url = "https://pay/1"
                  /\ pay.resp.reference = "r1"
                  /\ pay.resp.amount = VOUCHER_PRICE_GHS
             /\ pay.got = "rejected" => pay.resp.error = "upstream"
             /\ pay.resp.code = 500 => pay.resp.authorization_url = ""

\* the gateway answers without a data object: 500
C25_Witness ==
    /\ PayInputValid
    /\ pay.got = "nodata"
    /\ pay.resp.code = 500

----------------------------------------------------------------------------
(* C26 *)

References == {RefOf(d) : d \in Arrived}
RowsMarkedFor(r) == {loc[d].i : d \in {e \in GotVoucher : RefOf(e) = r}}
SmsSentFor(r) == {d \in Arrived : RefOf(d) = r /\ HasOk(d, "sms")}

\* C26: with the Payments tab readable and every append succeeding, for any
\* gateway reference r and any interleaving of the deliveries carrying r (two
\* of them in flight together included), at most one voucher row is marked used
\* on behalf of r and at most one SMS is sent for r.
C26_OneVoucherPerPaymentConcurrently ==
    \A r \in References :
        /\ Cardinality(RowsMarkedFor(r)) <= 1
        /\ Cardinality(SmsSentFor(r)) <= 1

----------------------------------------------------------------------------
(* C27 *)

\* The deliveries whose voucher-tab read or voucher-row write threw.
AllocationFailed == {d \in Deliveries : HasFailed(d, "vRead") \/ HasFailed(d, "vWrite")}

\* C27: a delivery whose voucher-tab read or voucher-row write fails is
\* answered 500 by that step, which leaves every tab and the SMS log as they
\* were; the failed call is its last, so it sends no SMS and writes no affiliate
\* data and no payment-log record; a later delivery of the same reference is
\* answered 'already processed' only if a delivery other than the failed one
\* logged the reference, and otherwise goes on to the voucher read.
C27_AllocationFaultAborts ==
    /\ [](\A d \in AllocationFailed :
            /\ pc[d] = "done" /\ resp[d] = Response(500, "server error")
            /\ LastCall(d) \in {Call("vRead", FALSE), Call("vWrite", FALSE)}
            /\ CallNames(d) \cap {"sms", "affSale", "affRead", "affWrite", "payAppend"} = {}
            /\ \A row \in BagToSet(payments) :
                    row.reference = RefOf(d) =>
                        \E e \in Arrived \ {d} : RefOf(e) = RefOf(d) /\ HasOk(e, "payAppend")
            /\ \A e \in Arrived :
                 (/\ d \in prior[e] /\ req[e] = req[d] /\ pc[e] = "done"
                  /\ ~\E f \in Arrived \ {d, e} : RefOf(f) = RefOf(d) /\ HasOk(f, "payAppend"))
                 => resp[e] # alreadyProcessed /\ Has(e, "vRead"))
    /\ [][\A d \in Deliveries :
            (d \notin AllocationFailed /\ (d \in AllocationFailed)')
            => /\ resp'[d].code = 500
               /\ UNCHANGED <<vouchers, payments, affiliates, affiliateSales, outbox>>]_vars

\* the voucher-row write of a delivery fails; the redelivery gets the voucher
C27_Witness ==
    \E d, e \in Arrived :
        /\ HasFailed(d, "vWrite") /\ resp[d].code = 500
        /\ d \in prior[e] /\ req[e] = req[d]
        /\ HasOk(e, "vWrite") /\ resp[e] = okResponse
        /\ loc[e].i = loc[d].i

----------------------------------------------------------------------------
(* C28 *)

\* The deliveries one of whose affiliate calls threw.
AffiliateFailed ==
    {d \in Deliveries :
        HasFailed(d, "affSale") \/ HasFailed(d, "affRead") \/ HasFailed(d, "affWrite")}

\* C28: a delivery whose voucher-row write succeeded keeps its row marked used
\* and has no response but 200 'ok', whichever of its later calls (SMS, sale
\* append, totals read and write, payment-log append) fail; it ends only with
\* the payment-log append, which is the next call after a failed affiliate call.
C28_BestEffortStepsAbsorbed ==
    \A d \in GotVoucher :
        /\ UsedMarker(vouchers[loc[d].i].status)
        /\ resp[d] \in {NoResp, Response(200, "ok")}
        /\ pc[d] = "done" =>
             /\ resp[d] = Response(200, "ok")
             /\ LastCall(d).call = "payAppend"
        /\ d \in AffiliateFailed =>
             \/ pc[d] = "paylog" /\ LastCall(d).call \in {"affSale", "affRead", "affWrite"}
             \/ pc[d] = "done" /\ LastCall(d).call = "payAppend"

\* the SMS, the sale append and the payment-log append of one delivery all fail
C28_Witness ==
    \E d \in GotVoucher :
        /\ HasFailed(d, "sms") /\ HasFailed(d, "affSale") /\ HasFailed(d, "payAppend")
        /\ resp[d] = Response(200, "ok")
        /\ UsedMarker(vouchers[loc[d].i].status)

----------------------------------------------------------------------------
(* C29 *)

\* C29: every record of the Payments log carries a non-empty voucher serial,
\* the serial of a row allocated to a delivery of the record's reference; and a
\* delivery is answered 'already processed' only when a delivery of the same
\* reference got a voucher before it.
C29_LoggedOnlyWhenAllocated ==
    /\ \A row \in BagToSet(payments) :
            /\ row.voucherSerial # <<>>
            /\ \E d \in GotVoucher :
                    RefOf(d) = row.reference /\ loc[d].voucher.serial = row.voucherSerial
    /\ \A d \in Arrived :
            resp[d] = alreadyProcessed =>
                \E e \in GotVoucher : e \in prior[d] /\ RefOf(e) = RefOf(d)

----------------------------------------------------------------------------
(* C30 *)

\* The referral codes the affiliate tabs mention.
LedgerCodes ==
    {r.code : r \in BagToSet(affiliateSales)} \cup {affiliates[k].code : k \in DOMAIN affiliates}

\* The number of AffiliateSales entries for code c.
SaleCount(c) == BagCardinality([r \in SaleEntries(c) |-> affiliateSales[r]])

\* C30: with no failing call and no delivery in flight, whatever the
\* interleaving of the deliveries before, every referral code c has an
\* Affiliates row (the one a lookup of c finds) whose totalSales is the number
\* of AffiliateSales entries for c and whose totalCommission is three times
\* that.
C30_LedgerConsistentWhenQuiescent ==
    InFlight = {} =>
        \A c \in LedgerCodes :
            LET k == findCode(affiliates, c, 1) IN
            /\ k # 0
            /\ affiliates[k].totalSales = SaleCount(c)
            /\ affiliates[k].totalCommission = COMMISSION_GHS * SaleCount(c)

----------------------------------------------------------------------------
(* C31 *)

\* C31: under any interleaving of deliveries the Affiliates tab holds at most
\* one row per referral code; a row is appended only when the tab holds none
\* for the code, and a sale under a code that has a row updates that row.
C31_OneAccountPerCode ==
    /\ [](\A c \in LedgerCodes : Cardinality(AccountsOf(c)) <= 1)
    /\ [][\A d \in Deliveries :
            (pc[d] = "affwrite" /\ pc'[d] # "affwrite") =>
                IF AccountsOf(loc[d].refCode) = {}
                  THEN affiliates' = Append(affiliates, AffiliateRow(loc[d].refCode, 1, 3))
                  ELSE /\ Len(affiliates') = Len(affiliates)
                       /\ \E k \in AccountsOf(loc[d].refCode) :
                            affiliates'[k].totalSales = affiliates[k].totalSales + 1]_vars

----------------------------------------------------------------------------
(* updateOrCreateAffiliateTotals, called on an Affiliates tab as found *)

MaxAccounts == 2
MaxTotalsCalls == 2

\* The codes the function is called with; '' is the empty code.
TotalsCodes == {"", "c1", "c2"}

\* The rows an Affiliates tab may hold: codes that differ in case only, a
\* name and phone filled in by hand or not, totals blank or written before.
SeedAccounts ==
    {[code |-> c, name |-> n, phone |-> n, totalSales |-> t[1], totalCommission |-> t[2]] :
        c \in {"c1", "C1", "c2"}, n \in {"", "Ama"},
        t \in {<<BlankCell, BlankCell>>, <<1, 3>>, <<2, 6>>}}
SeedTabs == UNION {[1..n -> SeedAccounts] : n \in 0..MaxAccounts}

\* One call of updateOrCreateAffiliateTotals(refCode): the rows it read, what
\* it computed from them, the tab before and after its write.
TotalsCall(refCode, stage, rows, t, wrote, before, after) ==
    [fn |-> "updateOrCreateAffiliateTotals", refCode |-> refCode, stage |-> stage,
     rows |-> rows, found |-> t.found, newSales |-> t.newSales, newComm |-> t.newComm,
     wrote |-> wrote, before |-> before, after |-> after]

TotalsPending == calls # <<>> /\ calls[Len(calls)].stage = "read"

\* The call up to its first await: `if (!refCode) return`, else values.get
\* and the scan of the rows.
UpdateTotalsRead ==
    /\ ~TotalsPending
    /\ Len(calls) < MaxTotalsCalls
    /\ \E c \in TotalsCodes :
         calls' = Append(calls,
                    IF c = ""
                      THEN TotalsCall(c, "returned", <<>>,
                                      [found |-> 0, newSales |-> 0, newComm |-> 0],
                                      FALSE, affiliates, affiliates)
                      ELSE TotalsCall(c, "read", affiliates, totalsRead(affiliates, c),
                                      FALSE, affiliates, affiliates))
    /\ UNCHANGED <<vouchers, payments, affiliates, affiliateSales, outbox,
                   pc, req, loc, resp, io, prior, faults, seed, pay>>

\* The second await: values.append or values.update; the call returns.
UpdateTotalsWrite ==
    /\ TotalsPending
    /\ LET q == calls[Len(calls)] IN
         /\ affiliates' = totalsWrite(affiliates, q.refCode, q.found, q.newSales, q.newComm)
         /\ calls' = [calls EXCEPT ![Len(calls)] =
                        [q EXCEPT !.stage = "returned", !.wrote = TRUE,
                                  !.before = affiliates, !.after = affiliates']]
    /\ UNCHANGED <<vouchers, payments, affiliateSales, outbox,
                   pc, req, loc, resp, io, prior, faults, seed, pay>>

InitTotals ==
    /\ vouchers = <<>>
    /\ seed = vouchers
    /\ payments = EmptyBag
    /\ affiliates \in SeedTabs
    /\ affiliateSales = EmptyBag
    /\ outbox = EmptyBag
    /\ pc = [d \in Deliveries |-> "idle"]
    /\ req = [d \in Deliveries |-> NoRequest]
    /\ loc = [d \in Deliveries |-> InitLocals]
    /\ resp = [d \in Deliveries |-> NoResp]
    /\ io = [d \in Deliveries |-> <<>>]
    /\ prior = [d \in Deliveries |-> {}]
    /\ faults = 0
    /\ calls = <<>>
    /\ pay = NoPayment
NextTotals == UpdateTotalsRead \/ UpdateTotalsWrite
SpecTotals == InitTotals /\ [][NextTotals]_vars

----------------------------------------------------------------------------
(* C32 *)

\* The positions of the rows of `rows` whose code is exactly c.
Matches(rows, c) == {k \in DOMAIN rows : rows[k].code = c}
FirstMatch(rows, c) == CHOOSE k \in Matches(rows, c) : \A j \in Matches(rows, c) : k <= j

\* C32: a call of updateOrCreateAffiliateTotals(c) that has returned: with the
\* empty code it read and wrote nothing; when a row read has code exactly c it
\* wrote, at the position of the first such row, that row's totalSales + 1 and
\* totalCommission + 3 (a blank total counting as 0), and left the row's code,
\* name and phone and every other row as they were; when no row read has code
\* c it appended the row (c, '', '', 1, 3) and changed no row.
C32_TotalsUpdateOrCreate ==
    \A k \in DOMAIN calls :
        LET q == calls[k] IN
        q.stage = "returned" =>
            IF q.refCode = ""
              THEN ~q.wrote /\ q.after = q.before /\ q.rows = <<>>
            ELSE IF Matches(q.rows, q.refCode) # {}
              THEN LET i == FirstMatch(q.rows, q.refCode) IN
                   /\ q.wrote
                   /\ DOMAIN q.after = DOMAIN q.before
                   /\ q.after[i].totalSales = parseTotal(q.rows[i].totalSales) + 1
                   /\ q.after[i].totalCommission =
                        parseTotal(q.rows[i].totalCommission) + COMMISSION_GHS
                   /\ q.after[i].code = q.before[i].code
                   /\ q.after[i].name = q.before[i].name
                   /\ q.after[i].phone = q.before[i].phone
                   /\ \A j \in DOMAIN q.before : j # i => q.after[j] = q.before[j]
              ELSE /\ q.wrote
                   /\ q.after = Append(q.before,
                                       [code |-> q.refCode, name |-> "", phone |-> "",
                                        totalSales |-> 1, totalCommission |-> 3])

\* two rows carry the code: the first one is updated, the second one is kept
C32_Witness ==
    \E k \in DOMAIN calls :
        LET q == calls[k] IN
        /\ q.stage = "returned" /\ q.refCode = "c1"
        /\ Matches(q.rows, "c1") = {1, 2}
        /\ q.rows[1].name = "Ama" /\ q.rows[1].totalSales = 2
        /\ q.after[1].totalSales = 3 /\ q.after[1].totalCommission = 9
        /\ q.after[1].name = "Ama"
        /\ q.after[2] = q.rows[2]
        /\ affiliates = q.after

----------------------------------------------------------------------------
(* Deliveries with and without a referral code, remote calls that may fail *)

ReferralRequests == {PlainRequest, EmptyRefRequest, ReferredRequest}

ReceiveReferral(d) ==
    /\ InFlight = {}
    /\ ReceiveFrom(d, ReferralRequests, MaxDeliveries)

NextReferral ==
    \E d \in Deliveries :
        \/ ReceiveReferral(d)
        \/ GuardRead(d)
        \/ VoucherRead(d)
        \/ VoucherWrite(d)
        \/ NoVoucherLog(d)
        \/ SendSms(d)
        \/ AffiliateSale(d)
        \/ AffiliateRead(d)
        \/ AffiliateWrite(d)
        \/ PaymentLog(d)

\* Voucher tabs of unused rows, one for each delivery at most.
InitReferral == InitWith(SeedStores({<<>>}, SerialRows))
SpecReferral == InitReferral /\ [][NextReferral]_vars

----------------------------------------------------------------------------
(* C33 *)

\* The deliveries whose metadata carries no referral code (absent or empty).
Uncoded == {d \in Arrived : reqBody(req[d]).ref \in {None, ""}}
AffiliateCalls == {"affSale", "affRead", "affWrite"}
SaleCalls(d) == {k \in DOMAIN io[d] : io[d][k].call = "affSale"}

\* C33: a delivery without a referral code makes no call on the Affiliates
\* and AffiliateSales tabs, and none of its steps changes them; a delivery with
\* a code makes at most one sale append, after its voucher write succeeded; and
\* the AffiliateSales tab holds one entry per successful sale append.
C33_AffiliateOnlyWithCode ==
    /\ [](/\ \A d \in Uncoded : CallNames(d) \cap AffiliateCalls = {}
          /\ \A d \in Arrived :
               /\ Cardinality(SaleCalls(d)) <= 1
               /\ \A k \in SaleCalls(d) : \E j \in 1..(k - 1) : io[d][j] = Call("vWrite", TRUE)
          /\ BagCardinality(affiliateSales) =
               Cardinality({d \in Arrived : HasOk(d, "affSale")}))
    /\ [][\A d \in Uncoded :
            (io'[d] # io[d] \/ pc'[d] # pc[d]) => UNCHANGED <<affiliates, affiliateSales>>]_vars

\* a delivery with the empty code got its voucher and was answered 'ok'; one
\* with a code appended its sale entry
C33_Witness ==
    \E d, e \in Arrived :
        /\ reqBody(req[d]).ref = "" /\ d \in GotVoucher /\ resp[d] = okResponse
        /\ io[d] = <<Call("payRead", TRUE), Call("vRead", TRUE), Call("vWrite", TRUE),
                     Call("sms", TRUE), Call("payAppend", TRUE)>>
        /\ reqBody(req[e]).ref = "c1" /\ HasOk(e, "affSale")
        /\ BagCardinality(affiliateSales) = 1

----------------------------------------------------------------------------
(* C34 *)

SmsCalls(d) == {k \in DOMAIN io[d] : io[d][k].call = "sms"}

\* What holds of the SMS whatever the phone is: a delivery calls
\* sendSMS exactly when its voucher write succeeded, as its next call and once,
\* and an SMS that was sent carries the serial and PIN of the row the delivery
\* marked.
SmsFollowsAllocation ==
    \A d \in Arrived :
        /\ Has(d, "sms") => d \in GotVoucher
        /\ (d \in GotVoucher /\ pc[d] # "sms") => Has(d, "sms")
        /\ Cardinality(SmsCalls(d)) <= 1
        /\ HasOk(d, "sms") =>
             \E m \in BagToSet(outbox) :
                /\ m.to = loc[d].phone
                /\ m.serial = vouchers[loc[d].i].serial
                /\ m.pin = vouchers[loc[d].i].pin

\* C34: a delivery attempts the SMS if and only if it allocated a voucher, at
\* most once; the recipient is normalizePhone of the delivery's metadata phone,
\* and the message carries the serial and PIN of the row the delivery marked.
C34_SmsOnlyForAllocatedVoucher ==
    /\ SmsFollowsAllocation
    /\ \A d \in GotVoucher :
         /\ loc[d].phone = normalizePhone(MetadataPhone(d))
         /\ HasOk(d, "sms") =>
              \E m \in BagToSet(outbox) :
                 /\ m.to = normalizePhone(MetadataPhone(d))
                 /\ m.serial = vouchers[loc[d].i].serial
                 /\ m.pin = vouchers[loc[d].i].pin

----------------------------------------------------------------------------
(* getAndMarkVoucher on voucher tabs whose serial and pin cells may be padded *)

PaddedSeedRow(k, status) ==
    VoucherRow(<<" ", "S", ToString(k), " ">>, <<"P", ToString(k), "\t">>, status, <<>>, "", "", "")

AllocateStores ==
    UNION {{[k \in 1..n |-> IF f[k][1] THEN PaddedSeedRow(k, f[k][2]) ELSE SeedRow(k, f[k][2])] :
              f \in [1..n -> BOOLEAN \X {<<>>, STR_USED}]} : n \in 0..SerialRows}

InitAllocate == InitWith(AllocateStores)

ReceiveAllocate(d) ==
    /\ InFlight = {}
    /\ ReceiveFrom(d, {ReferredRequest, FreshRequest(d)}, SerialDeliveries)

NextAllocate == \E d \in Deliveries : ReceiveAllocate(d) \/ SerialStep(d)

SpecAllocate == InitAllocate /\ [][NextAllocate]_vars

----------------------------------------------------------------------------
(* C35 *)

\* C35: the write of a getAndMarkVoucher call that selected the row at
\* position i of the rows it read (read index i - 1, sheet row i + 1) changes
\* that row of the tab and no other: the row keeps its serial and pin, trimmed,
\* and gets the used marker; a step of a call that selected no row, and every
\* other step, leaves the voucher tab as it was.
C35_AllocationFrame ==
    /\ [](\A d \in Exhausted : ~Has(d, "vWrite"))
    /\ [][/\ \A d \in Deliveries :
               (pc[d] = "vwrite" /\ pc'[d] # "vwrite") =>
                   LET i == loc[d].i IN
                   /\ i \in DOMAIN vouchers
                   /\ loc[d].rows[i] = vouchers[i]
                   /\ DOMAIN vouchers' = DOMAIN vouchers
                   /\ vouchers'[i].serial = trim(vouchers[i].serial)
                   /\ vouchers'[i].pin = trim(vouchers[i].pin)
                   /\ UsedMarker(vouchers'[i].status)
                   /\ \A k \in DOMAIN vouchers : k # i => vouchers'[k] = vouchers[k]
          /\ (\A d \in Deliveries : pc[d] # "vwrite") => vouchers' = vouchers]_vars

\* the second row, with padded cells, is selected and written; the first is kept
C35_Witness ==
    \E d \in GotVoucher :
        /\ loc[d].i = 2
        /\ UsedMarker(seed[1].status) /\ vouchers[1] = seed[1]
        /\ seed[2].serial = <<" ", "S", "2", " ">>
        /\ vouchers[2].serial = <<"S", "2">> /\ vouchers[2].pin = <<"P", "2">>
        /\ vouchers[2].status = STR_USED

----------------------------------------------------------------------------
(* C36 *)

\* C36: whatever the body of a /create-payment request, the request posted
\* to the gateway asks for 2500 (25 x 100) in GHS and carries
\* normalizePhone(phone) as the metadata phone, and a 200 response returns the
\* amount 25; an amount given in the body changes neither.
C36_FixedPrice ==
    /\ \A k \in DOMAIN pay.sent :
         /\ pay.sent[k].amount = 2500
         /\ pay.sent[k].amount = 25 * 100
         /\ pay.sent[k].currency = "GHS"
         /\ pay.sent[k].metadata.phone = normalizePhone(pay.body.phone)
         /\ pay.sent[k].metadata.name = pay.body.name
         /\ pay.sent[k].email = pay.body.email
    /\ pay.resp.code = 200 => pay.resp.amount = 25 /\ Len(pay.sent) = 1
    /\ pay.resp.code # 200 => pay.resp.amount = 0

\* a body with phone '+05' and an amount of its own: 2500 is asked for the
\* phone '2335', and 25 is returned
C36_Witness ==
    /\ pay.body.amount = "1"
    /\ pay.body.phone = <<"+", "0", "5">>
    /\ Len(pay.sent) = 1
    /\ pay.sent[1].amount = 2500
    /\ pay.sent[1].metadata.phone = <<"2", "3", "3", "5">>
    /\ pay.resp.code = 200 /\ pay.resp.amount = 25

----------------------------------------------------------------------------
(* Deliveries in flight together, every remote call of which returns or throws *)

\* The completion of the remote call delivery d is waiting for; a call throws
\* only while no other delivery is in flight.
Completes(A, d) == A /\ (InFlight = {d} \/ faults' = faults)

DeliveryStep(d) ==
    \/ Completes(GuardRead(d), d)
    \/ Completes(VoucherRead(d), d)
    \/ Completes(VoucherWrite(d), d)
    \/ Completes(NoVoucherLog(d), d)
    \/ Completes(SendSms(d), d)
    \/ Completes(AffiliateSale(d), d)
    \/ Completes(AffiliateRead(d), d)
    \/ Completes(AffiliateWrite(d), d)
    \/ Completes(PaymentLog(d), d)

InitLive == InitWith(SeedStores({<<>>}, MaxRows))
ReceiveLive(d) == ReceiveFrom(d, {ReferredRequest}, MaxDeliveries)
NextLive == \E d \in Deliveries : ReceiveLive(d) \/ DeliveryStep(d)

\* Every awaited call eventually returns or throws, and the event loop then
\* resumes the handler that awaits it.
CallsComplete == \A d \in Deliveries : WF_vars(DeliveryStep(d))

SpecLive == InitLive /\ [][NextLive]_vars /\ CallsComplete

----------------------------------------------------------------------------
(* C37 *)

\* C37: if every remote call eventually returns or throws, every delivery
\* that has arrived eventually ends; a delivery has a response exactly when it
\* has ended, and the response, once sent, is not sent again or changed; and a
\* delivery in flight is never blocked by another one: the completion of the
\* call it awaits is possible in every state, whatever the other deliveries do.
C37_Termination ==
    /\ \A d \in Deliveries : (pc[d] # "idle") ~> (pc[d] = "done")
    /\ [](\A d \in Deliveries :
            /\ pc[d] = "done" <=> resp[d] # NoResp
            /\ d \in InFlight => ENABLED DeliveryStep(d))
    /\ [][\A d \in Deliveries :
            resp[d] # NoResp => (resp'[d] = resp[d] /\ pc'[d] = "done" /\ io'[d] = io[d])]_vars

\* the second delivery has been answered 'ok' while the first, which arrived
\* before it, still awaits its first call
C37_Witness ==
    /\ pc[1] = "guard"
    /\ pc[2] = "done" /\ resp[2] = okResponse
    /\ HasOk(2, "payAppend")

============================================================================
